---------------------------- MODULE Spec2Model ----------------------------
(***************************************************************************)
(* Rule engine of the reversi crate: Board (board.rs) and Turn (turn.rs).  *)
(* A Turn is a record [board, state, score_dark, score_light]; a Coord is  *)
(* a pair <<row, col>>; a Cell is "None" or the side of the disk on it;    *)
(* a State is "None" (ended) or the side that moves next.                  *)
(* current_turn is the Turn the calls act on, last the last call with its  *)
(* result, last_turn the Turn it was applied to, and player the player     *)
(* whose moves the game goes on with ("None" while any caller may call).   *)
(* Game (game.rs) is current_turn, turns_history (a sequence of entries    *)
(* [turn, coord], the last pushed last) and players, the two players it    *)
(* was created with; last_history is turns_history before the last call    *)
(* and free_calls counts the answers of the players that were not their    *)
(* own move.  cells is a Board of its own, as the one of test_board, and  *)
(* last_cells that Board before the last call on it.                       *)
(***************************************************************************)
EXTENDS Integers, Sequences, FiniteSets, TLC

VARIABLES current_turn, last_turn, last, player,
          turns_history, players, last_history, free_calls,
          cells, last_cells, other_game

\* What a Game holds besides its current Turn, and what is observed of it.
game_vars == <<turns_history, players, last_history, free_calls, other_game>>

\* A Board that is held outside of a Turn, and what is observed of it.
board_vars == <<cells, last_cells>>

vars == <<current_turn, last_turn, last, player, game_vars, board_vars>>

\* ------------------------------------------------------------------ bounds
\* Number of moves during which the caller may submit any coordinate; the
\* game goes on with the moves of one player, FoolPlayer or LastPlayer.
MaxFree == 2

\* Number of answers of the players of a Game that may be something else
\* than the move of the player: Undo, Other or a move that is refused.
MaxFreeCalls == 1

\* Number of moves that are applied to each of two Games that are played
\* side by side.
MaxMoves == 3

\* --------------------------------------------------------------- board.rs
BOARD_SIZE == 8

NUM_CELLS == BOARD_SIZE * BOARD_SIZE

Side == {"Dark", "Light"}

opposite(side) == IF side = "Dark" THEN "Light" ELSE "Dark"

DIRECTIONS == <<"North", "NE", "East", "SE", "South", "SW", "West", "NW">>

Direction == {DIRECTIONS[i] : i \in 1..Len(DIRECTIONS)}

\* Coordinates of the cells of the board.
Coords == (0..(BOARD_SIZE - 1)) \X (0..(BOARD_SIZE - 1))

\* Coordinates a caller may pass: those of the board, and three that are out
\* of bounds in the row, in the column and in both.
InputCoords ==
    Coords \cup {<<BOARD_SIZE, 0>>, <<0, BOARD_SIZE>>, <<BOARD_SIZE, BOARD_SIZE>>}

\* The coordinates for which the calls that return an error are followed
\* up: a corner, the four cells of the centre, a cell next to the centre and
\* the three that are out of bounds.
ErrorCoords ==
    (InputCoords \ Coords)
      \cup {<<0, 0>>, <<2, 2>>}
      \cup {<<r, c>> : r \in {BOARD_SIZE \div 2 - 1, BOARD_SIZE \div 2},
                       c \in {BOARD_SIZE \div 2 - 1, BOARD_SIZE \div 2}}

\* Board::new(&[[None; BOARD_SIZE]; BOARD_SIZE])
empty_board == [c \in Coords |-> "None"]

\* step that looks at the row, not at the column, before it goes SW.
step_sw_row(coord, dir) ==
    LET row == coord[1]
        col == coord[2]
        ok(c) == [ok |-> TRUE, coord |-> c]
    IN  CASE dir = "North" /\ row > 0            -> ok(<<row - 1, col>>)
          [] dir = "NE"    /\ row > 0            -> ok(<<row - 1, col + 1>>)
          [] dir = "East"                        -> ok(<<row, col + 1>>)
          [] dir = "SE"                          -> ok(<<row + 1, col + 1>>)
          [] dir = "South"                       -> ok(<<row + 1, col>>)
          [] dir = "SW"    /\ row > 0            -> ok(<<row + 1, col - 1>>)
          [] dir = "West"  /\ col > 0            -> ok(<<row, col - 1>>)
          [] dir = "NW"    /\ row > 0 /\ col > 0 -> ok(<<row - 1, col - 1>>)
          [] OTHER -> [ok |-> FALSE, coord |-> coord]

\* Coord::step: the components never go below zero (an error instead), and
\* there is no check of the upper bound.
step(coord, dir) ==
    LET row == coord[1]
        col == coord[2]
        ok(c) == [ok |-> TRUE, coord |-> c]
    IN  CASE dir = "North" /\ row > 0            -> ok(<<row - 1, col>>)
          [] dir = "NE"    /\ row > 0            -> ok(<<row - 1, col + 1>>)
          [] dir = "East"                        -> ok(<<row, col + 1>>)
          [] dir = "SE"                          -> ok(<<row + 1, col + 1>>)
          [] dir = "South"                       -> ok(<<row + 1, col>>)
          [] dir = "SW"    /\ col > 0            -> ok(<<row + 1, col - 1>>)
          [] dir = "West"  /\ col > 0            -> ok(<<row, col - 1>>)
          [] dir = "NW"    /\ row > 0 /\ col > 0 -> ok(<<row - 1, col - 1>>)
          [] OTHER -> [ok |-> FALSE, coord |-> coord]

\* The coordinate the callers of step in turn.rs go on with: the stepped
\* coordinate, or one that is off the board when the step left the board.
next_coord(coord, dir) ==
    IF step(coord, dir).ok THEN step(coord, dir).coord
    ELSE <<BOARD_SIZE, BOARD_SIZE>>

\* get_cell that checks the row only and takes a cell beyond the last
\* column for an empty one.
get_cell_rows(board, coord) ==
    IF coord[1] >= BOARD_SIZE THEN "OutOfBoundCoord"
    ELSE IF coord[2] >= BOARD_SIZE THEN "None"
    ELSE board[coord]

\* Board::get_cell: the cell, or the error OutOfBoundCoord.
get_cell(board, coord) ==
    IF coord[1] >= BOARD_SIZE \/ coord[2] >= BOARD_SIZE
    THEN "OutOfBoundCoord"
    ELSE board[coord]

\* flip_disk that leaves a dark disk, whatever the disk was.
flip_disk_dark(board, coord) ==
    LET cell == get_cell(board, coord)
    IN  IF cell = "OutOfBoundCoord"
        THEN [result |-> "OutOfBoundCoord", board |-> board]
        ELSE IF cell = "None"
        THEN [result |-> "EmptyCell", board |-> board]
        ELSE [result |-> "Ok", board |-> [board EXCEPT ![coord] = "Dark"]]

\* flip_disk taking the disk off the board instead of turning it.
flip_disk_remove(board, coord) ==
    LET cell == get_cell(board, coord)
    IN  IF cell = "OutOfBoundCoord"
        THEN [result |-> "OutOfBoundCoord", board |-> board]
        ELSE IF cell = "None"
        THEN [result |-> "EmptyCell", board |-> board]
        ELSE [result |-> "Ok", board |-> [board EXCEPT ![coord] = "None"]]

\* Board::flip_disk
flip_disk(board, coord) ==
    LET cell == get_cell(board, coord)
    IN  IF cell = "OutOfBoundCoord"
        THEN [result |-> "OutOfBoundCoord", board |-> board]
        ELSE IF cell = "None"
        THEN [result |-> "EmptyCell", board |-> board]
        ELSE [result |-> "Ok",
              board |-> [board EXCEPT ![coord] = opposite(cell)]]

\* place_disk that puts the disk on a cell that is taken as well.
place_disk_over(board, side, coord) ==
    IF get_cell(board, coord) = "OutOfBoundCoord"
    THEN [result |-> "OutOfBoundCoord", board |-> board]
    ELSE [result |-> "Ok", board |-> [board EXCEPT ![coord] = side]]

\* Board::place_disk
place_disk(board, side, coord) ==
    LET cell == get_cell(board, coord)
    IN  IF cell = "OutOfBoundCoord"
        THEN [result |-> "OutOfBoundCoord", board |-> board]
        ELSE IF cell # "None"
        THEN [result |-> "CellAlreadyTaken", board |-> board]
        ELSE [result |-> "Ok", board |-> [board EXCEPT ![coord] = side]]

\* ---------------------------------------------------------------- turn.rs
\* Arithmetic of scores that are five bits wide.
U8_narrow(n) == n % 32

\* Arithmetic of the u8 scores and of the eaten counter.
U8(n) == n % 256

\* first_turn with the disks of the two sides on the other diagonal.
first_turn_swapped ==
    [board |-> [c \in Coords |->
                  IF c[1] \in {BOARD_SIZE \div 2 - 1, BOARD_SIZE \div 2}
                       /\ c[2] \in {BOARD_SIZE \div 2 - 1, BOARD_SIZE \div 2}
                  THEN IF c[1] = c[2] THEN "Dark" ELSE "Light"
                  ELSE "None"],
     state |-> "Dark", score_dark |-> 2, score_light |-> 2]

first_turn ==
    LET center == BOARD_SIZE \div 2
        empty  == [c \in Coords |-> "None"]
        b1 == place_disk(empty, "Dark", <<center - 1, center>>).board
        b2 == place_disk(b1, "Dark", <<center, center - 1>>).board
        b3 == place_disk(b2, "Light", <<center - 1, center - 1>>).board
        b4 == place_disk(b3, "Light", <<center, center>>).board
    IN  [board |-> b4, state |-> "Dark", score_dark |-> 2, score_light |-> 2]

get_tempo(turn) == U8(turn.score_light + turn.score_dark)

\* check_run accepting a run that ends at an empty cell.
RECURSIVE check_run_open(_, _, _, _)
check_run_open(board, coord, dir, side) ==
    LET cell == get_cell(board, coord)
    IN  IF cell \in Side
        THEN IF cell = side
             THEN TRUE
             ELSE check_run_open(board, next_coord(coord, dir), dir, side)
        ELSE cell = "None"

\* The while loop of check_move_along_direction.
RECURSIVE check_run(_, _, _, _)
check_run(board, coord, dir, side) ==
    LET cell == get_cell(board, coord)
    IN  IF cell \in Side
        THEN IF cell = side
             THEN TRUE
             ELSE check_run(board, next_coord(coord, dir), dir, side)
        ELSE FALSE

\* check_move_along_direction taking every direction for one that eats.
check_move_along_direction_any(board, coord, dir, side) == TRUE

check_move_along_direction(board, coord, dir, side) ==
    LET next == next_coord(coord, dir)
        cell == get_cell(board, next)
    IN  /\ cell \in Side
        /\ cell # side
        /\ check_run(board, next_coord(next, dir), dir, side)

\* THIRD_TO_LAST one row short.
THIRD_TO_LAST_short == BOARD_SIZE - 4

THIRD_TO_LAST == BOARD_SIZE - 3

SECOND_TO_LAST == BOARD_SIZE - 2

check_move(turn, coord) ==
    IF turn.state = "None" THEN "EndedGame"
    ELSE
    LET state_side == turn.state
        row == coord[1]
        col == coord[2]
        along(dir) ==
            check_move_along_direction(turn.board, coord, dir, state_side)
        cell == get_cell(turn.board, coord)
    IN  IF cell = "OutOfBoundCoord" THEN "OutOfBoundCoord"
        ELSE IF cell # "None" THEN "CellAlreadyTaken"
        ELSE IF CASE row <= 1 ->
                       \/ along("South")
                       \/ (col >= 2 /\ (along("West") \/ along("SW")))
                       \/ (col < SECOND_TO_LAST
                            /\ (along("East") \/ along("SE")))
                  [] row >= 2 /\ row <= THIRD_TO_LAST ->
                       \/ along("North") \/ along("South")
                       \/ (col >= 2
                            /\ (along("West") \/ along("SW") \/ along("NW")))
                       \/ (col < SECOND_TO_LAST
                            /\ (along("East") \/ along("NE") \/ along("SE")))
                  [] OTHER ->
                       \/ along("North")
                       \/ (col >= 2 /\ (along("West") \/ along("NW")))
                       \/ (col < SECOND_TO_LAST
                            /\ (along("East") \/ along("NE")))
        THEN "Ok"
        ELSE "IllegalMove"

\* can_move that does not look whether a cell of the first row is empty.
can_move_taken(turn) ==
    /\ turn.state # "None"
    /\ \E coord \in Coords, dir \in Direction :
         /\ (turn.board[coord] = "None" \/ coord[1] = 0)
         /\ check_move_along_direction(turn.board, coord, dir, turn.state)

\* Turn::can_move: the scan of the nine regions of the board, each with the
\* directions that can hold a run.
\* can_move that does not look at the first two rows.
can_move_no_lo(turn) ==
    IF turn.state # "None"
    THEN
    LET state_side == turn.state
        hi  == (BOARD_SIZE - 2)..(BOARD_SIZE - 1)
        mid == 2..(BOARD_SIZE - 3)
        lo  == 0..1
        along(coord, dirs) ==
            /\ get_cell(turn.board, coord) = "None"
            /\ \E dir \in dirs :
                 check_move_along_direction(turn.board, coord, dir, state_side)
    IN  \/ \E row \in hi :
             \/ \E col \in hi : along(<<row, col>>, {"North", "West", "NW"})
             \/ \E col \in mid :
                  along(<<row, col>>, {"North", "NE", "East", "West", "NW"})
             \/ \E col \in lo : along(<<row, col>>, {"North", "NE", "East"})
        \/ \E row \in mid :
             \/ \E col \in hi :
                  along(<<row, col>>, {"North", "West", "South", "SW", "NW"})
             \/ \E col \in mid :
                  along(<<row, col>>, {"North", "NE", "East", "SE", "South",
                                       "SW", "West", "NW"})
             \/ \E col \in lo :
                  along(<<row, col>>, {"North", "NE", "East", "SE", "South"})
    ELSE FALSE

can_move(turn) ==
    IF turn.state # "None"
    THEN
    LET state_side == turn.state
        hi  == (BOARD_SIZE - 2)..(BOARD_SIZE - 1)
        mid == 2..(BOARD_SIZE - 3)
        lo  == 0..1
        along(coord, dirs) ==
            /\ get_cell(turn.board, coord) = "None"
            /\ \E dir \in dirs :
                 check_move_along_direction(turn.board, coord, dir, state_side)
    IN  \/ \E row \in hi :
             \/ \E col \in hi : along(<<row, col>>, {"North", "West", "NW"})
             \/ \E col \in mid :
                  along(<<row, col>>, {"North", "NE", "East", "West", "NW"})
             \/ \E col \in lo : along(<<row, col>>, {"North", "NE", "East"})
        \/ \E row \in mid :
             \/ \E col \in hi :
                  along(<<row, col>>, {"North", "West", "South", "SW", "NW"})
             \/ \E col \in mid :
                  along(<<row, col>>, {"North", "NE", "East", "SE", "South",
                                       "SW", "West", "NW"})
             \/ \E col \in lo :
                  along(<<row, col>>, {"North", "NE", "East", "SE", "South"})
        \/ \E row \in lo :
             \/ \E col \in hi : along(<<row, col>>, {"West", "South", "SW"})
             \/ \E col \in mid :
                  along(<<row, col>>, {"East", "SE", "South", "SW", "West"})
             \/ \E col \in lo : along(<<row, col>>, {"East", "SE", "South"})
    ELSE FALSE

\* dir_scanned skipping the northward directions one row too early.
dir_scanned_narrow(coord, dir) ==
    LET row == coord[1]
        col == coord[2]
    IN  /\ (row >= 3 \/ (dir # "North" /\ dir # "NE" /\ dir # "NW"))
        /\ (row < BOARD_SIZE - 2
             \/ (dir # "South" /\ dir # "SE" /\ dir # "SW"))
        /\ (col >= 2 \/ (dir # "West" /\ dir # "NW" /\ dir # "SW"))
        /\ (col < BOARD_SIZE - 2
             \/ (dir # "East" /\ dir # "NE" /\ dir # "SE"))

\* The filter of the directions make_move scans: a direction pointing to an
\* edge that is less than two cells away is skipped.
dir_scanned(coord, dir) ==
    LET row == coord[1]
        col == coord[2]
    IN  /\ (row >= 2 \/ (dir # "North" /\ dir # "NE" /\ dir # "NW"))
        /\ (row < BOARD_SIZE - 2
             \/ (dir # "South" /\ dir # "SE" /\ dir # "SW"))
        /\ (col >= 2 \/ (dir # "West" /\ dir # "NW" /\ dir # "SW"))
        /\ (col < BOARD_SIZE - 2
             \/ (dir # "East" /\ dir # "NE" /\ dir # "SE"))

\* eat_run stopping after the first disk of the run.
eat_run_once(acc, coord, dir, turn_side) ==
    LET cell == get_cell(acc.board, coord)
    IN  IF cell \in Side THEN [acc EXCEPT !.legal = TRUE] ELSE acc

\* The while loop of make_move that eats along one direction, from the
\* second cell of the run on; acc is [board, eating, legal, panic].
RECURSIVE eat_run(_, _, _, _)
eat_run(acc, coord, dir, turn_side) ==
    LET cell == get_cell(acc.board, coord)
    IN  IF cell \in Side
        THEN IF cell # turn_side
             THEN LET flipped == flip_disk(acc.board, coord)
                  IN  IF flipped.result # "Ok"
                      THEN [acc EXCEPT !.panic = TRUE]
                      ELSE eat_run([acc EXCEPT !.board = flipped.board,
                                               !.eating = U8(@ + 1)],
                                   next_coord(coord, dir), dir, turn_side)
             ELSE [acc EXCEPT !.legal = TRUE]
        ELSE acc

\* eat_direction counting the first disk of the run without turning it.
eat_direction_keep_first(acc, coord, dir, turn_side) ==
    IF check_move_along_direction(acc.board, coord, dir, turn_side)
    THEN eat_run([acc EXCEPT !.eating = U8(@ + 1)],
                 next_coord(next_coord(coord, dir), dir), dir, turn_side)
    ELSE acc

\* eat_direction turning the disks of the opponent it meets before it knows
\* that the run is closed.
eat_direction_eager(acc, coord, dir, turn_side) ==
    IF get_cell(acc.board, next_coord(coord, dir)) = opposite(turn_side)
    THEN eat_run([acc EXCEPT !.board =
                      flip_disk(acc.board, next_coord(coord, dir)).board,
                             !.eating = U8(@ + 1)],
                 next_coord(next_coord(coord, dir), dir), dir, turn_side)
    ELSE acc

\* eat_direction starting the count of the eaten disks anew.
eat_direction_recount(acc, coord, dir, turn_side) ==
    IF check_move_along_direction(acc.board, coord, dir, turn_side)
    THEN LET first   == next_coord(coord, dir)
             flipped == flip_disk(acc.board, first)
         IN  IF flipped.result # "Ok"
             THEN [acc EXCEPT !.panic = TRUE]
             ELSE eat_run([acc EXCEPT !.board = flipped.board,
                                      !.eating = 1],
                          next_coord(first, dir), dir, turn_side)
    ELSE acc

\* The body of the for loop of make_move for one scanned direction.
eat_direction(acc, coord, dir, turn_side) ==
    IF check_move_along_direction(acc.board, coord, dir, turn_side)
    THEN LET first   == next_coord(coord, dir)
             flipped == flip_disk(acc.board, first)
         IN  IF flipped.result # "Ok"
             THEN [acc EXCEPT !.panic = TRUE]
             ELSE eat_run([acc EXCEPT !.board = flipped.board,
                                      !.eating = U8(@ + 1)],
                          next_coord(first, dir), dir, turn_side)
    ELSE acc

\* The for loop of make_move over DIRECTIONS, from the i-th direction on.
RECURSIVE eat_directions(_, _, _, _)
eat_directions(acc, coord, turn_side, i) ==
    IF i > Len(DIRECTIONS) \/ acc.panic
    THEN acc
    ELSE eat_directions(
             IF dir_scanned(coord, DIRECTIONS[i])
             THEN eat_direction(acc, coord, DIRECTIONS[i], turn_side)
             ELSE acc,
             coord, turn_side, i + 1)

\* next_state giving the turn back to the mover without looking whether the
\* mover can move.
next_state_no_end(turn, turn_side) ==
    IF get_tempo(turn) = U8(NUM_CELLS)
    THEN "None"
    ELSE IF can_move([turn EXCEPT !.state = opposite(turn_side)])
    THEN opposite(turn_side)
    ELSE turn_side

\* next_state ending the game as soon as the opponent cannot move.
next_state_no_pass(turn, turn_side) ==
    IF get_tempo(turn) = U8(NUM_CELLS)
    THEN "None"
    ELSE IF can_move([turn EXCEPT !.state = opposite(turn_side)])
    THEN opposite(turn_side)
    ELSE "None"

\* The state make_move leaves after a legal move of turn_side; turn holds
\* the new board and the new scores.
next_state(turn, turn_side) ==
    IF get_tempo(turn) = U8(NUM_CELLS)
    THEN "None"
    ELSE IF can_move([turn EXCEPT !.state = opposite(turn_side)])
    THEN opposite(turn_side)
    ELSE IF can_move([turn EXCEPT !.state = turn_side])
    THEN turn_side
    ELSE "None"

\* update_scores giving the disks that were eaten to the opponent.
update_scores_swapped(turn, turn_side, eating) ==
    IF turn_side = "Dark"
    THEN [turn EXCEPT !.score_light = U8(@ + eating),
                      !.score_dark  = U8(@ - eating + 1)]
    ELSE [turn EXCEPT !.score_light = U8(@ - eating + 1),
                      !.score_dark  = U8(@ + eating)]

\* update_scores forgetting the disk that was placed.
update_scores_eaten_only(turn, turn_side, eating) ==
    IF turn_side = "Dark"
    THEN [turn EXCEPT !.score_light = U8(@ - eating),
                      !.score_dark  = U8(@ + eating)]
    ELSE [turn EXCEPT !.score_light = U8(@ + eating),
                      !.score_dark  = U8(@ - eating)]

\* update_scores leaving the opponent's score as it was.
update_scores_mover_only(turn, turn_side, eating) ==
    IF turn_side = "Dark"
    THEN [turn EXCEPT !.score_dark  = U8(@ + U8(eating + 1))]
    ELSE [turn EXCEPT !.score_light = U8(@ + U8(eating + 1))]

\* The update of the scores in make_move after a legal move of turn_side
\* that ate eating disks.
update_scores(turn, turn_side, eating) ==
    IF turn_side = "Dark"
    THEN [turn EXCEPT !.score_light = U8(@ - eating),
                      !.score_dark  = U8(@ + U8(eating + 1))]
    ELSE [turn EXCEPT !.score_light = U8(@ + U8(eating + 1)),
                      !.score_dark  = U8(@ - eating)]

\* The end of make_move once the directions are scanned: acc is the
\* [board, eating, legal, panic] the for loop leaves, placed the result of
\* place_disk at coord on its board; scored is the Turn with the new board
\* and the new scores.
make_move_state(scored, turn_side, eating) ==
    [result |-> "Ok",
     turn   |-> [scored EXCEPT !.state = next_state(scored, turn_side)],
     eating |-> eating]

make_move_end(turn, coord, turn_side, acc, placed) ==
    LET fail(result) ==
            [result |-> result, turn |-> [turn EXCEPT !.board = acc.board],
             eating |-> 0]
    IN  IF acc.panic THEN fail("Panic")
        ELSE IF ~acc.legal THEN fail("IllegalMove")
        ELSE IF placed.result # "Ok" THEN fail("Panic")
        ELSE make_move_state(
                 update_scores([turn EXCEPT !.board = placed.board],
                               turn_side, acc.eating),
                 turn_side, acc.eating)

\* make_move_scan that does not put the disk of the move on the board.
make_move_scan_no_place(turn, coord, turn_side, acc) ==
    make_move_end(turn, coord, turn_side, acc,
                  [result |-> "Ok", board |-> acc.board])

\* The for loop of make_move and what follows it.
make_move_scan(turn, coord, turn_side, acc) ==
    make_move_end(turn, coord, turn_side, acc,
                  place_disk(acc.board, turn_side, coord))

\* Turn::make_move: [result, turn, eating], turn being the Turn it leaves.
make_move(turn, coord) ==
    LET cell == get_cell(turn.board, coord)
        fail(result) == [result |-> result, turn |-> turn, eating |-> 0]
    IN  IF cell = "OutOfBoundCoord" THEN fail("OutOfBoundCoord")
        ELSE IF cell # "None" THEN fail("CellAlreadyTaken")
        ELSE IF turn.state = "None" THEN fail("EndedGame")
        ELSE make_move_scan(turn, coord, turn.state,
                 eat_directions([board |-> turn.board, eating |-> 0,
                                 legal |-> FALSE, panic |-> FALSE],
                                coord, turn.state, 1))

\* ------------------------------------------------------------ tests/mod.rs
\* Position of a coordinate in the row-major scan of the board.
index(coord) == coord[1] * BOARD_SIZE + coord[2]

\* The first coordinate of a non-empty set in row-major order.
first_coord(coords) ==
    CHOOSE c \in coords : \A d \in coords : index(c) <= index(d)

\* FoolPlayer::make_move: the first coordinate, in row-major order, that
\* check_move accepts, or the error EndedGame when there is none.
fool_action(legal) ==
    IF legal = {}
    THEN [result |-> "EndedGame", coord |-> <<0, 0>>]
    ELSE [result |-> "Ok", coord |-> first_coord(legal)]

\* FoolPlayer that takes the first empty cell without asking check_move.
FoolPlayer_empty(turn) ==
    fool_action({c \in Coords : get_cell(turn.board, c) = "None"})

FoolPlayer(turn) ==
    fool_action({c \in Coords : check_move(turn, c) = "Ok"})

\* ---------------------------------------------------------------- game.rs
\* The last coordinate of a non-empty set in row-major order.
last_coord(coords) ==
    CHOOSE c \in coords : \A d \in coords : index(c) >= index(d)

\* An IsPlayer that scans the board as FoolPlayer does, from the last cell
\* to the first.
last_action(legal) ==
    IF legal = {}
    THEN [result |-> "EndedGame", coord |-> <<0, 0>>]
    ELSE [result |-> "Ok", coord |-> last_coord(legal)]

LastPlayer(turn) ==
    last_action({c \in Coords : check_move(turn, c) = "Ok"})

\* A PlayerAction: Move(coord), Undo or Other(payload).
Move(coord) ==
    [kind |-> "Move", coord |-> coord, payload |-> 0, error |-> "None"]

Undo ==
    [kind |-> "Undo", coord |-> <<0, 0>>, payload |-> 0, error |-> "None"]

Other(payload) ==
    [kind |-> "Other", coord |-> <<0, 0>>, payload |-> payload,
     error |-> "None"]

\* The Err(error) a player answers instead of a PlayerAction.
Failure(error) ==
    [kind |-> "Err", coord |-> <<0, 0>>, payload |-> 0, error |-> error]

\* Game::new
new(dark, light) ==
    [current_turn |-> first_turn, turns_history |-> <<>>,
     dark |-> dark, light |-> light]

\* Game::make_move pushing the Turn that the move leaves.
game_make_move_push_after(game, coord) ==
    LET done == make_move(game.current_turn, coord)
    IN  [result |-> done.result,
         game |-> [game EXCEPT !.current_turn = done.turn,
                               !.turns_history =
                                   Append(@, [turn |-> done.turn,
                                              coord |-> coord])]]

\* game_make_move in which the entry that was pushed is the Turn the move is
\* made on and not a copy of it.
game_make_move_end_alias(game, done) ==
    [result |-> done.result,
     game |-> [game EXCEPT !.current_turn = done.turn,
                           !.turns_history =
                               [@ EXCEPT ![Len(@)].turn = done.turn]]]

\* Game::make_move: the entry is pushed, then the move is made.
game_make_move_end(game, done) ==
    [result |-> done.result, game |-> [game EXCEPT !.current_turn = done.turn]]

game_make_move(game, coord) ==
    game_make_move_end(
        [game EXCEPT !.turns_history =
            Append(@, [turn |-> game.current_turn, coord |-> coord])],
        make_move(game.current_turn, coord))

\* undo_pop that does not look at the first entry of the history.
RECURSIVE undo_pop_strict(_, _)
undo_pop_strict(history, side) ==
    IF Len(history) <= 1
    THEN [result |-> "NoUndo", turn |-> first_turn, history |-> <<>>]
    ELSE IF history[Len(history)].turn.state = side
    THEN [result |-> "Ok", turn |-> history[Len(history)].turn,
          history |-> SubSeq(history, 1, Len(history) - 1)]
    ELSE undo_pop_strict(SubSeq(history, 1, Len(history) - 1), side)

\* undo_pop that leaves the entry it stops at in the history.
RECURSIVE undo_pop_keep(_, _)
undo_pop_keep(history, side) ==
    IF history = <<>>
    THEN [result |-> "NoUndo", turn |-> first_turn, history |-> history]
    ELSE IF history[Len(history)].turn.state = side
    THEN [result |-> "Ok", turn |-> history[Len(history)].turn,
          history |-> history]
    ELSE undo_pop_keep(SubSeq(history, 1, Len(history) - 1), side)

\* undo_pop that stops at the last entry, whatever its side.
undo_pop_last(history, side) ==
    IF history = <<>>
    THEN [result |-> "NoUndo", turn |-> first_turn, history |-> history]
    ELSE [result |-> "Ok", turn |-> history[Len(history)].turn,
          history |-> SubSeq(history, 1, Len(history) - 1)]

\* The while loops of Game::undo: the entries are popped until one holds a
\* Turn of side; [result, turn, history], result being "Ok" with the Turn
\* that was found and the entries that are left, "NoUndo" when the history
\* is used up, "Panic" when the state of an entry is unwrapped in vain.
RECURSIVE undo_pop(_, _)
undo_pop(history, side) ==
    IF history = <<>>
    THEN [result |-> "NoUndo", turn |-> first_turn, history |-> history]
    ELSE LET previous_turn == history[Len(history)].turn
             popped == SubSeq(history, 1, Len(history) - 1)
         IN  IF previous_turn.state = "None"
             THEN [result |-> "Panic", turn |-> previous_turn,
                   history |-> popped]
             ELSE IF previous_turn.state = side
             THEN [result |-> "Ok", turn |-> previous_turn,
                   history |-> popped]
             ELSE undo_pop(popped, side)

\* undo_end that does not put the backup back.
undo_end_no_backup(game, backup, found) ==
    [result |-> found.result,
     game |-> [game EXCEPT !.current_turn =
                               IF found.result = "Ok" THEN found.turn ELSE @,
                           !.turns_history = found.history]]

\* The end of Game::undo: game is the Game when the loop starts, backup the
\* history when undo was called, found what the loop returns.
undo_end(game, backup, found) ==
    IF found.result = "Ok"
    THEN [result |-> "Ok",
          game |-> [game EXCEPT !.current_turn = found.turn,
                                !.turns_history = found.history]]
    ELSE IF found.result = "NoUndo"
    THEN [result |-> "NoUndo", game |-> [game EXCEPT !.turns_history = backup]]
    ELSE [result |-> "Panic",
          game |-> [game EXCEPT !.turns_history = found.history]]

\* Game::undo
undo(game) ==
    IF game.current_turn.state = "None"
    THEN IF game.turns_history = <<>>
         THEN [result |-> "NoUndo", game |-> game]
         ELSE LET top == game.turns_history[Len(game.turns_history)].turn
                  popped == SubSeq(game.turns_history, 1,
                                   Len(game.turns_history) - 1)
              IN  IF top.state = "None"
                  THEN [result |-> "Panic",
                        game |-> [game EXCEPT !.current_turn = top,
                                              !.turns_history = popped]]
                  ELSE undo_end([game EXCEPT !.current_turn = top],
                                game.turns_history,
                                undo_pop(popped, opposite(top.state)))
    ELSE undo_end(game, game.turns_history,
                  undo_pop(game.turns_history, game.current_turn.state))

\* The match on the action in Game::play_turn; invoked is the player that
\* gave the action.
apply_action_end(action, invoked, done) ==
    [result  |-> done.result,
     action  |-> IF done.result = "Ok" THEN action ELSE Other(0),
     invoked |-> invoked,
     game    |-> done.game]

\* apply_action that takes every action but Move for Undo.
apply_action_undo(game, action, invoked) ==
    apply_action_end(action, invoked,
        IF action.kind = "Move" THEN game_make_move(game, action.coord)
        ELSE undo(game))

apply_action(game, action, invoked) ==
    apply_action_end(action, invoked,
        CASE action.kind = "Move" -> game_make_move(game, action.coord)
          [] action.kind = "Undo" -> undo(game)
          [] OTHER -> [result |-> "Ok", game |-> game])

\* player_answer taking a failure of the player for an action without effect.
player_answer_ok(game, answer, invoked) == apply_action(game, answer, invoked)

\* The answer of the player that Game::play_turn asked: a failure is
\* returned as it is, an action goes to the match on the action.
player_answer(game, answer, invoked) ==
    IF answer.kind = "Err"
    THEN [result |-> answer.error, action |-> Other(0), invoked |-> invoked,
          game |-> game]
    ELSE apply_action(game, answer, invoked)

\* play_turn that lets an Undo through when the Game is ended.
play_turn_undo_ended(game, action) ==
    CASE game.current_turn.state = "None" /\ action.kind # "Undo" ->
           [result |-> "EndedGame", action |-> Other(0), invoked |-> "None",
            game |-> game]
      [] game.current_turn.state = "None" /\ action.kind = "Undo" ->
           player_answer(game, action, "None")
      [] game.current_turn.state = "Dark" ->
           player_answer(game, action, game.dark)
      [] game.current_turn.state = "Light" ->
           player_answer(game, action, game.light)

\* play_turn that asks the dark player when the Game is ended.
play_turn_no_end(game, action) ==
    IF game.current_turn.state = "Light"
    THEN player_answer(game, action, game.light)
    ELSE player_answer(game, action, game.dark)

\* play_turn that asks the player of the other side.
play_turn_swapped(game, action) ==
    CASE game.current_turn.state = "None" ->
           [result |-> "EndedGame", action |-> Other(0), invoked |-> "None",
            game |-> game]
      [] game.current_turn.state = "Dark" ->
           player_answer(game, action, game.light)
      [] game.current_turn.state = "Light" ->
           player_answer(game, action, game.dark)

\* Game::play_turn, action being what the player answers when it is asked:
\* [result, action, invoked, game] with the action that is returned, the
\* player that was asked ("None" when none was) and the Game it leaves.
play_turn(game, action) ==
    CASE game.current_turn.state = "None" ->
           [result |-> "EndedGame", action |-> Other(0), invoked |-> "None",
            game |-> game]
      [] game.current_turn.state = "Dark" ->
           player_answer(game, action, game.dark)
      [] game.current_turn.state = "Light" ->
           player_answer(game, action, game.light)

\* ------------------------------------------------------------ state machine
\* Number of disks on a board.
disks(board) == Cardinality({c \in Coords : board[c] # "None"})

\* Number of moves applied since first_turn.
moves(turn) == disks(turn.board) - disks(first_turn.board)

Init ==
    /\ current_turn = first_turn
    /\ last_turn = first_turn
    /\ last = [op |-> "first_turn", coord |-> <<0, 0>>, result |-> "Ok",
               eating |-> 0]
    /\ player = "None"
    /\ turns_history = <<>>
    /\ players = [dark |-> "None", light |-> "None"]
    /\ last_history = <<>>
    /\ free_calls = 0
    /\ other_game = new("FoolPlayer", "FoolPlayer")
    /\ cells = empty_board
    /\ last_cells = empty_board

\* A call of Turn::check_move(coord) on the current Turn.
CheckMove ==
    /\ player = "None"
    /\ moves(current_turn) < MaxFree
    /\ \E coord \in InputCoords :
         \E result \in {check_move(current_turn, coord)} :
           /\ result = "Ok" \/ coord \in ErrorCoords
           /\ last' = [op |-> "check_move", coord |-> coord,
                       result |-> result, eating |-> 0]
    /\ last_turn' = current_turn
    /\ UNCHANGED <<current_turn, player, game_vars, board_vars>>

\* A call of Turn::make_move(coord) on the current Turn.
MakeMove ==
    /\ player = "None"
    /\ moves(current_turn) < MaxFree
    /\ \E coord \in InputCoords :
         \E done \in {make_move(current_turn, coord)} :
           /\ done.result = "Ok" \/ coord \in ErrorCoords
           /\ current_turn' = done.turn
           /\ last' = [op |-> "make_move", coord |-> coord,
                       result |-> done.result, eating |-> done.eating]
    /\ last_turn' = current_turn
    /\ UNCHANGED <<player, game_vars, board_vars>>

\* A call of Turn::make_move with the coordinate a player chose.
PlayerMove(action) ==
    /\ action.result = "Ok"
    /\ \E done \in {make_move(current_turn, action.coord)} :
           /\ current_turn' = done.turn
           /\ last' = [op |-> "make_move", coord |-> action.coord,
                       result |-> done.result, eating |-> done.eating]
    /\ last_turn' = current_turn

\* A turn of a game played by FoolPlayer on both sides.
FoolMove ==
    /\ player \in {"None", "FoolPlayer"}
    /\ current_turn.state # "None"
    /\ \E action \in {FoolPlayer(current_turn)} : PlayerMove(action)
    /\ player' = "FoolPlayer"
    /\ UNCHANGED <<game_vars, board_vars>>

\* A turn of a game played by LastPlayer on both sides.
LastMove ==
    /\ player \in {"None", "LastPlayer"}
    /\ current_turn.state # "None"
    /\ \E action \in {LastPlayer(current_turn)} : PlayerMove(action)
    /\ player' = "LastPlayer"
    /\ UNCHANGED <<game_vars, board_vars>>

Next ==
    \/ CheckMove
    \/ MakeMove
    \/ FoolMove
    \/ LastMove

Spec == Init /\ [][Next]_vars

\* ------------------------------------------------------- state machine: Game

\* The players a Game is created with: each answers with its own move.
Players == {"FoolPlayer", "LastPlayer"}

\* IsPlayer::make_move of a player of Players.
player_make_move(name, turn) ==
    IF name = "FoolPlayer" THEN FoolPlayer(turn) ELSE LastPlayer(turn)

\* The coordinates of the moves that a Game refuses: a corner, a cell of the
\* centre and one that is out of bounds.
RefusedCoords == {<<0, 0>>, <<BOARD_SIZE \div 2, BOARD_SIZE \div 2>>,
                  <<BOARD_SIZE, 0>>}

\* The payloads of the actions Other.
Payloads == {1, 2}

\* The Game the variables hold.
game ==
    [current_turn |-> current_turn, turns_history |-> turns_history,
     dark |-> players.dark, light |-> players.light]

\* The player that is bound to the side to move.
on_turn ==
    IF current_turn.state = "Dark" THEN players.dark ELSE players.light

\* Game::new(dark, light) with two players of Players.
GameInit ==
    /\ \E dark \in Players, light \in Players :
         \E g \in {new(dark, light)} :
           /\ current_turn = g.current_turn
           /\ turns_history = g.turns_history
           /\ players = [dark |-> g.dark, light |-> g.light]
    /\ last_turn = first_turn
    /\ last_history = <<>>
    /\ last = [op |-> "new", coord |-> <<0, 0>>, result |-> "Ok", eating |-> 0,
               answer |-> Other(0), action |-> Other(0), invoked |-> "None",
               after_move |-> FALSE, on |-> "first"]
    /\ player = "None"
    /\ free_calls = 0
    /\ other_game = new("FoolPlayer", "FoolPlayer")
    /\ cells = empty_board
    /\ last_cells = empty_board

\* One call of Game::play_turn in which the player answers action; after_move
\* tells that the call before this one applied a move.
PlayTurn(action) ==
    /\ \E done \in {play_turn(game, action)} :
         /\ current_turn' = done.game.current_turn
         /\ turns_history' = done.game.turns_history
         /\ players' = [dark |-> done.game.dark, light |-> done.game.light]
         /\ last' = [op |-> "play_turn", coord |-> action.coord,
                     result |-> done.result, eating |-> 0,
                     answer |-> IF done.invoked = "None" THEN Other(0)
                                ELSE action,
                     action |-> done.action, invoked |-> done.invoked,
                     after_move |-> /\ last.op = "play_turn"
                                    /\ last.invoked # "None"
                                    /\ last.answer.kind = "Move"
                                    /\ last.result = "Ok",
                     on |-> "first"]
    /\ last_turn' = current_turn
    /\ last_history' = turns_history
    /\ UNCHANGED <<player, board_vars, other_game>>

\* The player on turn answers with its own move.
PlayTurnMove ==
    /\ current_turn.state # "None"
    /\ \E answer \in {player_make_move(on_turn, current_turn)} :
         /\ answer.result = "Ok"
         /\ PlayTurn(Move(answer.coord))
    /\ UNCHANGED free_calls

\* The player on turn answers with a move that the Turn refuses.
PlayTurnRefused ==
    /\ current_turn.state # "None"
    /\ free_calls < MaxFreeCalls
    /\ moves(current_turn) < MaxFree
    /\ \E coord \in RefusedCoords :
         /\ check_move(current_turn, coord) # "Ok"
         /\ PlayTurn(Move(coord))
    /\ free_calls' = free_calls + 1

\* The player on turn answers Undo.
PlayTurnUndo ==
    /\ current_turn.state # "None"
    /\ free_calls < MaxFreeCalls
    /\ PlayTurn(Undo)
    /\ free_calls' = free_calls + 1

\* The player on turn answers Other(payload).
PlayTurnOther ==
    /\ current_turn.state # "None"
    /\ free_calls < MaxFreeCalls
    /\ \E payload \in Payloads : PlayTurn(Other(payload))
    /\ free_calls' = free_calls + 1

\* The errors of the failures a player answers with: FoolPlayer's, and
\* another one.
PlayerErrors == {"EndedGame", "IllegalMove"}

\* The player on turn answers with a failure.
PlayTurnFailed ==
    /\ current_turn.state # "None"
    /\ free_calls < MaxFreeCalls
    /\ \E error \in PlayerErrors : PlayTurn(Failure(error))
    /\ free_calls' = free_calls + 1

\* play_turn is called on a Game that is ended: whatever the players would
\* answer, they are not asked.
PlayTurnEnded ==
    /\ current_turn.state = "None"
    /\ \E action \in {Move(<<0, 0>>), Undo, Other(1), Failure("EndedGame")} :
         PlayTurn(action)
    /\ UNCHANGED free_calls

GameNext ==
    \/ PlayTurnMove
    \/ PlayTurnRefused
    \/ PlayTurnUndo
    \/ PlayTurnOther
    \/ PlayTurnFailed
    \/ PlayTurnEnded

GameSpec == GameInit /\ [][GameNext]_vars

\* ------------------------------------------------------------------ claims
\* The last call was a make_move that succeeded: current_turn is the Turn it
\* left and last_turn the Turn it was applied to.
Moved == last.op = "make_move" /\ last.result = "Ok"

\* Unit vector <<rows, columns>> of a direction.
vector(dir) ==
    CASE dir = "North" -> <<-1, 0>>
      [] dir = "NE"    -> <<-1, 1>>
      [] dir = "East"  -> <<0, 1>>
      [] dir = "SE"    -> <<1, 1>>
      [] dir = "South" -> <<1, 0>>
      [] dir = "SW"    -> <<1, -1>>
      [] dir = "West"  -> <<0, -1>>
      [] dir = "NW"    -> <<-1, -1>>

\* The coordinate k cells away from coord in a direction (it may be off the
\* board), and what is there: a cell of the board or "Edge".
away(coord, dir, k) ==
    <<coord[1] + k * vector(dir)[1], coord[2] + k * vector(dir)[2]>>

cell_away(board, coord, dir, k) ==
    IF away(coord, dir, k) \in Coords THEN board[away(coord, dir, k)]
    ELSE "Edge"

\* The first k cells from coord in a direction are k - 1 disks of the side
\* opposite to side followed by a disk of side.
bracket(board, coord, dir, side, k) ==
    /\ cell_away(board, coord, dir, k) = side
    /\ \A j \in 1..(k - 1) : cell_away(board, coord, dir, j) = opposite(side)

\* A direction qualifies for side at coord.
outflanks(board, coord, dir, side) ==
    \E k \in 2..(BOARD_SIZE - 1) : bracket(board, coord, dir, side, k)

\* The cells of the qualifying runs from coord.
runs(board, coord, side) ==
    {away(coord, dir, j) : <<dir, j>> \in
        {p \in Direction \X (1..(BOARD_SIZE - 2)) :
            \E k \in (p[2] + 1)..(BOARD_SIZE - 1) :
                bracket(board, coord, p[1], side, k)}}

\* A board with the disks at coord and on the cells of run set to side.
board_after(board, coord, side, run) ==
    [d \in Coords |-> IF d = coord \/ d \in run THEN side ELSE board[d]]

\* side has a legal move on the board of turn.
has_move(turn, side) ==
    \E c \in Coords : check_move([turn EXCEPT !.state = side], c) = "Ok"

\* C1: in every reachable Turn score_dark + score_light is the number of
\* occupied cells of the board.
C1_ScoreSum ==
    current_turn.score_dark + current_turn.score_light
        = disks(current_turn.board)

C1_Witness == Moved /\ last.eating >= 2

\* C2: if the state is Running(side) then side has a legal move; if it is
\* Ended then neither side has a legal move, or the board is full.
C2_StateLegal ==
    /\ current_turn.state \in Side
         => has_move(current_turn, current_turn.state)
    /\ current_turn.state = "None"
         => \/ disks(current_turn.board) = NUM_CELLS
            \/ \A side \in Side : ~has_move(current_turn, side)

C2_Witness ==
    /\ Moved
    /\ current_turn.state = "None"
    /\ disks(current_turn.board) < NUM_CELLS

\* C3: on first_turn() check_move returns Ok exactly at (2,3), (3,2), (4,5)
\* and (5,4), and an error at the other 60 coordinates of the board.
C3_FirstMoves ==
    LET legal == {<<2, 3>>, <<3, 2>>, <<4, 5>>, <<5, 4>>}
    IN  /\ current_turn = first_turn
          => \A c \in Coords :
                IF c \in legal
                THEN check_move(current_turn, c) = "Ok"
                ELSE check_move(current_turn, c)
                        \in {"IllegalMove", "CellAlreadyTaken"}
        /\ (last.op = "check_move" /\ last_turn = first_turn
              /\ last.coord \in Coords)
          => (last.result = "Ok" <=> last.coord \in legal)

C3_Witness ==
    /\ last.op = "check_move"
    /\ last_turn = first_turn
    /\ last.coord = <<2, 3>>
    /\ last.result = "Ok"

\* C4: after make_move((2,3)) on first_turn() it is Light's turn and
\* check_move returns Ok exactly at (2,2), (2,4) and (4,2), and an error at
\* every other coordinate of the board.
C4_SecondMoves ==
    (Moved /\ last_turn = first_turn /\ last.coord = <<2, 3>>)
      => /\ current_turn.state = "Light"
         /\ \A c \in Coords :
               IF c \in {<<2, 2>>, <<2, 4>>, <<4, 2>>}
               THEN check_move(current_turn, c) = "Ok"
               ELSE check_move(current_turn, c)
                       \in {"IllegalMove", "CellAlreadyTaken"}

C4_Witness ==
    /\ Moved
    /\ last_turn = first_turn
    /\ last.coord = <<2, 3>>
    /\ check_move(current_turn, <<4, 2>>) = "Ok"

\* C5: on a Running(side) Turn, check_move(c) of a coordinate of the board
\* is CellAlreadyTaken when c is occupied, else Ok when some of the 8
\* directions holds a run of opposing disks ended by a disk of side, with a
\* bounds check at every step, else IllegalMove: the pruning of directions
\* by row and column changes nothing.
C5_CheckMoveScan ==
    current_turn.state \in Side
      => \A c \in Coords :
            check_move(current_turn, c)
              = IF current_turn.board[c] # "None" THEN "CellAlreadyTaken"
                ELSE IF \E dir \in Direction :
                          outflanks(current_turn.board, c, dir,
                                    current_turn.state)
                THEN "Ok"
                ELSE "IllegalMove"

C5_Witness ==
    /\ current_turn.state \in Side
    /\ \E c \in Coords :
          /\ c[1] \in {0, 1, BOARD_SIZE - 2, BOARD_SIZE - 1}
          /\ c[2] \in {0, 1, BOARD_SIZE - 2, BOARD_SIZE - 1}
          /\ check_move(current_turn, c) = "Ok"
    /\ \E c \in Coords :
          /\ current_turn.board[c] = "None"
          /\ check_move(current_turn, c) = "IllegalMove"

\* C6: for every reachable Turn and every coordinate, make_move succeeds if
\* and only if check_move returns Ok on the same Turn.
C6_MoveIffCheck ==
    /\ \A c \in InputCoords :
          (make_move(current_turn, c).result = "Ok")
            <=> (check_move(current_turn, c) = "Ok")
    /\ last.op = "make_move"
          => (last.result = "Ok"
                <=> check_move(last_turn, last.coord) = "Ok")

C6_Witness ==
    /\ last.op = "make_move"
    /\ last.result = "IllegalMove"
    /\ check_move(last_turn, last.coord) = "IllegalMove"

\* C7: a successful make_move(c) of side s places a disk of s at c, flips to
\* s exactly the opposing disks of the qualifying runs from c on the board
\* before the move, and leaves every other cell as it was.
C7_Flips ==
    Moved
      => current_turn.board
           = board_after(last_turn.board, last.coord, last_turn.state,
                         runs(last_turn.board, last.coord, last_turn.state))

C7_Witness ==
    /\ Moved
    /\ Cardinality({dir \in Direction :
                      outflanks(last_turn.board, last.coord, dir,
                                last_turn.state)}) >= 2
    /\ \E dir \in Direction :
          \E k \in 3..(BOARD_SIZE - 1) :
             bracket(last_turn.board, last.coord, dir, last_turn.state, k)

\* C8: make_move never empties an occupied cell (the disk stays, on the
\* same or on the opposite side) and never fills an empty cell other than
\* the target of a successful move.
C8_FlipSafety ==
    last.op = "make_move"
      => \A d \in Coords :
            /\ last_turn.board[d] \in Side => current_turn.board[d] \in Side
            /\ (last_turn.board[d] = "None" /\ current_turn.board[d] # "None")
                 => (last.result = "Ok" /\ d = last.coord)

C8_Witness ==
    /\ Moved
    /\ \E d \in Coords :
          /\ last_turn.board[d] \in Side
          /\ current_turn.board[d] = opposite(last_turn.board[d])
    /\ \E d \in Coords :
          /\ last_turn.board[d] \in Side
          /\ current_turn.board[d] = last_turn.board[d]

\* The disks a call turned to the other side.
flipped == {d \in Coords : /\ last_turn.board[d] \in Side
                           /\ current_turn.board[d] \in Side
                           /\ current_turn.board[d] # last_turn.board[d]}

\* The score of a side in a Turn.
score(turn, side) ==
    IF side = "Dark" THEN turn.score_dark ELSE turn.score_light

\* C9: after a successful make_move that flips eaten >= 1 disks the mover's
\* score is its previous score plus eaten + 1 and the opponent's score is
\* its previous score minus eaten.
C9_Scores ==
    (Moved /\ Cardinality(flipped) >= 1)
      => /\ last.eating = Cardinality(flipped)
         /\ score(current_turn, last_turn.state)
              = score(last_turn, last_turn.state) + Cardinality(flipped) + 1
         /\ score(current_turn, opposite(last_turn.state))
              = score(last_turn, opposite(last_turn.state))
                  - Cardinality(flipped)

C9_Witness ==
    /\ Moved
    /\ last_turn.state = "Light"
    /\ Cardinality(flipped) >= 3

\* C10: after a successful make_move of side s the state is Ended if the
\* board holds 64 disks, else Running(opposite of s) if the opponent has a
\* legal move on the new board, else Running(s) if s has one (forced pass),
\* else Ended (double pass).
C10_NextState ==
    Moved
      => current_turn.state
           = IF disks(current_turn.board) = NUM_CELLS THEN "None"
             ELSE IF has_move(current_turn, opposite(last_turn.state))
             THEN opposite(last_turn.state)
             ELSE IF has_move(current_turn, last_turn.state)
             THEN last_turn.state
             ELSE "None"

C10_Witness ==
    /\ Moved
    /\ current_turn.state = last_turn.state
    /\ disks(current_turn.board) < NUM_CELLS

\* ------------------------------------------------------ state machine: Board

\* The coordinates the calls on the Board are made with: three corners, a
\* cell of the centre and the three that are out of bounds.
BoardCoords ==
    {<<0, 0>>, <<0, BOARD_SIZE - 1>>, <<BOARD_SIZE - 1, BOARD_SIZE - 1>>,
     <<BOARD_SIZE \div 2 - 1, BOARD_SIZE \div 2>>}
      \cup (InputCoords \ Coords)

\* test_board: a Board with no disk on it.
BoardInit ==
    /\ cells = empty_board
    /\ last_cells = empty_board
    /\ last = [op |-> "new", coord |-> <<0, 0>>, side |-> "None",
               result |-> "Ok", eating |-> 0]
    /\ current_turn = first_turn
    /\ last_turn = first_turn
    /\ player = "None"
    /\ turns_history = <<>>
    /\ players = [dark |-> "None", light |-> "None"]
    /\ last_history = <<>>
    /\ free_calls = 0
    /\ other_game = new("FoolPlayer", "FoolPlayer")

\* A call on the Board that returns result and leaves the Board after.
BoardCall(op, side, coord, result, after) ==
    /\ last' = [op |-> op, coord |-> coord, side |-> side, result |-> result,
                eating |-> 0]
    /\ cells' = after
    /\ last_cells' = cells
    /\ UNCHANGED <<current_turn, last_turn, player, game_vars>>

GetCell ==
    \E coord \in BoardCoords :
      \E cell \in {get_cell(cells, coord)} :
        BoardCall("get_cell", "None", coord,
                  IF cell = "OutOfBoundCoord" THEN cell ELSE "Ok", cells)

PlaceDisk ==
    \E side \in Side, coord \in BoardCoords :
      \E done \in {place_disk(cells, side, coord)} :
        BoardCall("place_disk", side, coord, done.result, done.board)

FlipDisk ==
    \E coord \in BoardCoords :
      \E done \in {flip_disk(cells, coord)} :
        BoardCall("flip_disk", "None", coord, done.result, done.board)

\* The coordinates step is called with: three corners, (4, 5) and one that
\* is beyond the last row.
StepCoords ==
    {<<0, 0>>, <<0, BOARD_SIZE - 1>>, <<BOARD_SIZE - 1, 0>>, <<4, 5>>,
     <<BOARD_SIZE, 0>>}

\* Coord::step on a Coord: after is the Coord the call leaves.
Step ==
    /\ \E coord \in StepCoords, dir \in Direction :
         \E done \in {step(coord, dir)} :
           last' = [op |-> "step", coord |-> coord, side |-> "None",
                    result |-> IF done.ok THEN "Ok" ELSE "OutOfBoundStep",
                    eating |-> 0, dir |-> dir, after |-> done.coord]
    /\ last_cells' = cells
    /\ UNCHANGED <<cells, current_turn, last_turn, player, game_vars>>

BoardNext ==
    \/ GetCell
    \/ PlaceDisk
    \/ FlipDisk
    \/ Step

BoardSpec == BoardInit /\ [][BoardNext]_vars

\* ------------------------------------------------------------- claims: Game

\* A call of play_turn in which a player was asked and answered kind.
Played(kind) ==
    last.op = "play_turn" /\ last.invoked # "None" /\ last.answer.kind = kind

\* C11: when the player answers Move(c) and Turn::make_move(c) fails
\* (IllegalMove, CellAlreadyTaken or OutOfBoundCoord), play_turn returns that
\* error and leaves the history and the current Turn as they were: no entry
\* is pushed for a move that was not applied.
C11_RefusedMoveUnchanged ==
    (Played("Move") /\ last.result # "Ok")
      => /\ last.result = make_move(last_turn, last.coord).result
         /\ last.result \in {"IllegalMove", "CellAlreadyTaken",
                             "OutOfBoundCoord"}
         /\ current_turn = last_turn
         /\ turns_history = last_history

\* C12: a make_move that fails with IllegalMove or CellAlreadyTaken leaves
\* the Turn (board, state, scores) as it was, for the call that was made and
\* for every cell of every Turn that is reached, so that what a later
\* make_move does is what it would have done without the failed call.
C12_FailedMoveUnchanged ==
    /\ (/\ last.op = "make_move"
        /\ last.result \in {"IllegalMove", "CellAlreadyTaken"})
         => current_turn = last_turn
    /\ \A coord \in Coords :
         \A done \in {make_move(current_turn, coord)} :
           done.result \in {"IllegalMove", "CellAlreadyTaken"}
             => done.turn = current_turn

C12_Witness ==
    /\ last.op = "make_move"
    /\ last.result = "IllegalMove"
    /\ last.coord = <<2, 2>>
    /\ get_cell(current_turn.board, <<3, 3>>) = opposite(current_turn.state)
    /\ \E coord \in Coords : check_move(current_turn, coord) = "Ok"

\* The entry of the history before the last call that was pushed last.
top == last_history[Len(last_history)]

\* C13: when an Undo fails with NoUndo, the history afterwards is the history
\* before the call and the current Turn is unchanged.
C13_NoUndoUnchanged ==
    (Played("Undo") /\ last.result = "NoUndo")
      => /\ turns_history = last_history
         /\ current_turn = last_turn

C13_Witness ==
    /\ Played("Undo")
    /\ last.result = "NoUndo"
    /\ Len(last_history) >= 1

\* C14 as it was stated: when play_turn applies Move(c) to the current Turn
\* T and the next play_turn gets Undo, the current Turn after a successful
\* Undo equals T.
C14_UndoRestoresMoved ==
    (Played("Undo") /\ last.after_move /\ last.result = "Ok")
      => current_turn = top.turn

\* C14: when play_turn applies Move(c) to the current Turn T and the next
\* play_turn gets Undo from the player then on turn, the current Turn after
\* the Undo equals T if the Move was followed by a forced pass (the mover is
\* on turn again); if the opponent is on turn, a successful Undo goes back to
\* the Turn of the most recent earlier entry whose side to move is the
\* opponent, which is not T, and a failed one changes nothing.
C14_UndoAfterMove ==
    (Played("Undo") /\ last.after_move)
      => IF last_turn.state = top.turn.state
         THEN last.result = "Ok" /\ current_turn = top.turn
         ELSE IF last.result = "Ok"
         THEN /\ current_turn # top.turn
              /\ \E i \in 1..(Len(last_history) - 1) :
                   /\ current_turn = last_history[i].turn
                   /\ current_turn.state = last_turn.state
                   /\ \A j \in (i + 1)..Len(last_history) :
                        last_history[j].turn.state # last_turn.state
         ELSE /\ last.result = "NoUndo"
              /\ current_turn = last_turn
              /\ \A i \in 1..Len(last_history) :
                   last_history[i].turn.state # last_turn.state

C14_Witness ==
    /\ Played("Undo")
    /\ last.after_move
    /\ last.result = "Ok"
    /\ last_turn.state = top.turn.state
    /\ current_turn = top.turn
    /\ last_turn # top.turn

\* C15: a successful Undo asked by the side s to move sets the current Turn
\* to the Turn of the most recent entry of the history whose side to move is
\* s, removes that entry and every later one and leaves the earlier ones as
\* they were; afterwards s is to move again.
C15_UndoTarget ==
    (Played("Undo") /\ last.result = "Ok")
      => \E i \in 1..Len(last_history) :
           /\ last_history[i].turn.state = last_turn.state
           /\ \A j \in (i + 1)..Len(last_history) :
                last_history[j].turn.state # last_turn.state
           /\ current_turn = last_history[i].turn
           /\ turns_history = SubSeq(last_history, 1, i - 1)
           /\ current_turn.state = last_turn.state

C15_Witness ==
    /\ Played("Undo")
    /\ last.result = "Ok"
    /\ Len(turns_history) >= 1
    /\ Len(last_history) >= Len(turns_history) + 2

\* C16: play_turn on a Game that is ended returns EndedGame, asks neither
\* player and leaves the current Turn and the history as they were.
C16_EndedGame ==
    (last.op = "play_turn" /\ last_turn.state = "None")
      => /\ last.result = "EndedGame"
         /\ last.invoked = "None"
         /\ current_turn = last_turn
         /\ turns_history = last_history

C16_Witness ==
    /\ last.op = "play_turn"
    /\ last_turn.state = "None"
    /\ last.result = "EndedGame"
    /\ Len(turns_history) >= 1

\* C17: on a Turn that is ended, check_move(c) and make_move(c) both fail
\* with EndedGame for every cell c of the board, taken or empty, and the
\* Turn is unchanged.
C17_EndedTurn ==
    current_turn.state = "None"
      => \A coord \in Coords :
           /\ check_move(current_turn, coord) = "EndedGame"
           /\ make_move(current_turn, coord).result = "EndedGame"
           /\ make_move(current_turn, coord).turn = current_turn

\* C18: every play_turn on a running Game asks one player, the one bound to
\* the side to move, and no call changes the players the Game is bound to.
C18_PlayerOnTurn ==
    [][/\ players' = players
       /\ current_turn.state \in Side
            => /\ last'.op = "play_turn"
               /\ last'.invoked = IF current_turn.state = "Dark"
                                  THEN players.dark ELSE players.light]_vars

C18_Witness ==
    /\ last.op = "play_turn"
    /\ last_turn.state = "Light"
    /\ last.invoked = players.light
    /\ players.dark # players.light
    /\ Len(turns_history) >= 2

\* C19: when the player answers Other(payload), play_turn returns
\* Other(payload) and the current Turn and the history are unchanged.
C19_OtherUnchanged ==
    Played("Other")
      => /\ last.result = "Ok"
         /\ last.action = last.answer
         /\ last.action.payload \in Payloads
         /\ current_turn = last_turn
         /\ turns_history = last_history

C19_Witness ==
    /\ Played("Other")
    /\ last.action = Other(2)
    /\ Len(turns_history) >= 2

\* A Game of two FoolPlayers in which every answer was the move of the
\* player: the first legal coordinate in row-major order.
FoolGame ==
    /\ players = [dark |-> "FoolPlayer", light |-> "FoolPlayer"]
    /\ free_calls = 0

\* C20: a Game from Game::new in which both players always answer Move of
\* the first legal coordinate in row-major order reaches Ended after at most
\* 64 applied moves, and no play_turn fails before that: as long as the Game
\* is running the player on turn has a move to answer, every call on the
\* running Game returns Ok and applies one more move, which puts one more
\* disk on the board, and there are never more than 64 applied moves, so
\* that the loop that calls play_turn while the Game is running stops.
C20_FoolGameEnds ==
    FoolGame
      => /\ Len(turns_history) <= NUM_CELLS
         /\ Len(turns_history) = moves(current_turn)
         /\ disks(current_turn.board) <= NUM_CELLS
         /\ (last.op = "play_turn" /\ last_turn.state # "None")
              => /\ last.result = "Ok"
                 /\ last.action = last.answer
                 /\ last.answer = Move(FoolPlayer(last_turn).coord)
                 /\ Len(turns_history) = Len(last_history) + 1
         /\ current_turn.state # "None"
              => /\ FoolPlayer(current_turn).result = "Ok"
                 /\ disks(current_turn.board) < NUM_CELLS

C20_Witness ==
    /\ FoolGame
    /\ current_turn.state = "None"
    /\ Played("Move")
    /\ last.result = "Ok"
    /\ Len(turns_history) = moves(current_turn)
    /\ Len(turns_history) > NUM_CELLS \div 2

\* C21: first_turn has dark disks at (3,4) and (4,3) and nowhere else, light
\* disks at (3,3) and (4,4) and nowhere else, the state Running(Dark) and
\* the scores 2 and 2; Game::new starts with that Turn as its current Turn
\* and with an empty history.
C21_FirstTurn ==
    last.op = "new"
      => /\ current_turn = first_turn
         /\ turns_history = <<>>
         /\ \A c \in Coords :
              current_turn.board[c]
                = IF c \in {<<3, 4>>, <<4, 3>>} THEN "Dark"
                  ELSE IF c \in {<<3, 3>>, <<4, 4>>} THEN "Light"
                  ELSE "None"
         /\ current_turn.state = "Dark"
         /\ current_turn.score_dark = 2
         /\ current_turn.score_light = 2

C21_Witness ==
    /\ last.op = "new"
    /\ players.dark # players.light
    /\ game = new(players.dark, players.light)

\* ------------------------------------------------------------ claims: Board

\* The cells of the Board after the last call that are not the cell of the
\* call are those before the call.
OthersUnchanged == \A c \in Coords \ {last.coord} : cells[c] = last_cells[c]

\* C22: place_disk(side, c) on a cell that is taken fails with
\* CellAlreadyTaken and leaves the board unchanged; on an empty cell of the
\* board it succeeds, after which get_cell(c) holds a disk of side and every
\* other cell is unchanged.
C22_PlaceDisk ==
    (last.op = "place_disk" /\ last.coord \in Coords)
      => IF last_cells[last.coord] # "None"
         THEN last.result = "CellAlreadyTaken" /\ cells = last_cells
         ELSE /\ last.result = "Ok"
              /\ get_cell(cells, last.coord) = last.side
              /\ OthersUnchanged

C22_Witness ==
    /\ last.op = "place_disk"
    /\ last.result = "CellAlreadyTaken"
    /\ last.side = "Light"
    /\ cells[last.coord] = "Dark"

\* C23: flip_disk(c) on an empty cell fails with EmptyCell and leaves the
\* board unchanged; on a cell that is taken it changes the disk to the
\* opposite side and nothing else, so that two flip_disk(c) in a row give
\* the board back.
C23_FlipDisk ==
    /\ (last.op = "flip_disk" /\ last.coord \in Coords)
         => IF last_cells[last.coord] = "None"
            THEN last.result = "EmptyCell" /\ cells = last_cells
            ELSE /\ last.result = "Ok"
                 /\ cells[last.coord] = opposite(last_cells[last.coord])
                 /\ OthersUnchanged
    /\ \A coord \in Coords :
         cells[coord] # "None"
           => /\ flip_disk(cells, coord).result = "Ok"
              /\ flip_disk(flip_disk(cells, coord).board, coord)
                   = [result |-> "Ok", board |-> cells]

C23_Witness ==
    /\ last.op = "flip_disk"
    /\ last.result = "Ok"
    /\ cells[last.coord] = "Light"
    /\ \E c \in Coords \ {last.coord} : cells[c] = "Light"

\* ------------------------------------------------------------- claims: Turn

\* C24: get_cell(c), place_disk(_, c) and flip_disk(c) fail with
\* OutOfBoundCoord exactly when the row or the column of c is 8 or more, and
\* then the board is unchanged; check_move and make_move on a running Turn
\* fail with OutOfBoundCoord for such a coordinate and leave the Turn
\* unchanged.
C24_OutOfBound ==
    /\ \A coord \in InputCoords :
         \A out \in {coord[1] >= 8 \/ coord[2] >= 8} :
           /\ (get_cell(current_turn.board, coord) = "OutOfBoundCoord") = out
           /\ \A done \in {flip_disk(current_turn.board, coord)} :
                /\ (done.result = "OutOfBoundCoord") = out
                /\ out => done.board = current_turn.board
           /\ \A side \in Side :
                \A done \in {place_disk(current_turn.board, side, coord)} :
                  /\ (done.result = "OutOfBoundCoord") = out
                  /\ out => done.board = current_turn.board
           /\ (out /\ current_turn.state # "None")
                => /\ check_move(current_turn, coord) = "OutOfBoundCoord"
                   /\ make_move(current_turn, coord)
                        = [result |-> "OutOfBoundCoord", turn |-> current_turn,
                           eating |-> 0]
    /\ (/\ last.op \in {"check_move", "make_move"}
        /\ last.coord \notin Coords)
         => /\ last.result = "OutOfBoundCoord"
            /\ current_turn = last_turn

C24_Witness ==
    /\ last.op = "make_move"
    /\ last.result = "OutOfBoundCoord"
    /\ last.coord = <<0, 8>>
    /\ moves(current_turn) >= 1
    /\ current_turn = last_turn

\* C25: for every board and every side to move, can_move is true if and
\* only if check_move returns Ok for some coordinate of the board on the
\* same Turn: the pruning of the directions by region in can_move neither
\* misses a legal move nor invents one.
C25_CanMove ==
    \A state \in Side \cup {"None"} :
      \A turn \in {[current_turn EXCEPT !.state = state]} :
        can_move(turn) = (\E coord \in Coords : check_move(turn, coord) = "Ok")

C25_Witness ==
    /\ Moved
    /\ disks(current_turn.board) < NUM_CELLS
    /\ ~can_move([current_turn EXCEPT !.state = "Dark"])
    /\ can_move([current_turn EXCEPT !.state = "Light"])

\* ----------------------------------------------------- claims: Game history

\* C26: after any sequence of play_turn calls the history is a chain that
\* can be replayed: it holds one entry for every move that was applied and
\* not undone, its first entry, if any, stores first_turn, and for every
\* entry (T, c) the call T.make_move(c) succeeds and gives the Turn of the
\* next entry, or the current Turn for the last entry.
C26_ReplayableChain ==
    /\ Len(turns_history) = moves(current_turn)
    /\ turns_history # <<>> => turns_history[1].turn = first_turn
    /\ \A i \in 1..Len(turns_history) :
         \A done \in {make_move(turns_history[i].turn,
                                turns_history[i].coord)} :
           /\ done.result = "Ok"
           /\ done.turn = IF i < Len(turns_history)
                          THEN turns_history[i + 1].turn
                          ELSE current_turn

\* C27: in a game in which every answer of the players is Move(c) with
\* check_move(c) Ok on the current Turn, no play_turn fails while the Game
\* is running, every applied move raises the number of disks by one, and
\* the Game is ended after 60 applied moves at most: a legal answer exists
\* as long as the Game is running, and the board is full after 60 moves.
C27_LegalGame ==
    free_calls = 0
      => /\ moves(current_turn) <= NUM_CELLS - disks(first_turn.board)
         /\ moves(current_turn) = Len(turns_history)
         /\ (last.op = "play_turn" /\ last_turn.state # "None")
              => /\ last.answer.kind = "Move"
                 /\ check_move(last_turn, last.coord) = "Ok"
                 /\ last.result = "Ok"
                 /\ disks(current_turn.board) = disks(last_turn.board) + 1
         /\ current_turn.state # "None"
              => /\ \E coord \in Coords : check_move(current_turn, coord) = "Ok"
                 /\ moves(current_turn) < NUM_CELLS - disks(first_turn.board)

C27_Witness ==
    /\ free_calls = 0
    /\ players = [dark |-> "LastPlayer", light |-> "FoolPlayer"]
    /\ current_turn.state = "None"
    /\ last_turn.state # "None"
    /\ last.result = "Ok"
    /\ disks(current_turn.board) = disks(last_turn.board) + 1

\* C28: Undo fails with NoUndo exactly when the history holds no entry whose
\* side to move is the side that asks for the Undo; so it fails on an empty
\* history, and at the first decision of Light when the history holds the
\* opening move of Dark only.
C28_NoUndoIff ==
    Played("Undo")
      => /\ last.result \in {"Ok", "NoUndo"}
         /\ (last.result = "NoUndo")
              = (\A i \in 1..Len(last_history) :
                   last_history[i].turn.state # last_turn.state)
         /\ last_history = <<>> => last.result = "NoUndo"

C28_Witness ==
    /\ Played("Undo")
    /\ last.result = "NoUndo"
    /\ last_turn.state = "Light"
    /\ Len(last_history) = 1
    /\ last_history[1].turn = first_turn

\* C29: Ended is absorbing for a Game: once the current Turn is ended, no
\* play_turn changes the current Turn or the history, every call returning
\* EndedGame before a player is asked, so that the branch of undo for an
\* ended Turn is not run and a Game that is over cannot be undone.
C29_EndedAbsorbing ==
    [][current_turn.state = "None"
         => /\ current_turn' = current_turn
            /\ turns_history' = turns_history
            /\ last'.result = "EndedGame"
            /\ last'.invoked = "None"]_vars

C29_Witness ==
    /\ current_turn.state = "None"
    /\ last.result = "EndedGame"
    /\ last_turn = current_turn
    /\ last_history = turns_history
    /\ turns_history # <<>>

\* C30: every Turn stored in the history of the Game is running: no ended
\* Turn is pushed, so that undo never unwraps the state of an entry in vain,
\* whatever the players answer.
C30_HistoryRunning ==
    /\ \A i \in 1..Len(turns_history) : turns_history[i].turn.state \in Side
    /\ last.result # "Panic"

C30_Witness ==
    /\ current_turn.state = "None"
    /\ Len(turns_history) > moves(current_turn)
    /\ \A i \in 1..Len(turns_history) : turns_history[i].turn.state \in Side

\* ------------------------------------------------------------ claims: Coord

\* C38: step(dir) fails with OutOfBoundStep exactly when dir would take one
\* from a component that is 0 (North, NE, NW in row 0; West, SW, NW in
\* column 0), and then leaves the coordinate; otherwise it changes the row
\* and the column by the unit vector of dir, without a check of the upper
\* bound: NE from (4, 5) gives (3, 6), East from column 7 gives column 8.
C38_Step ==
    last.op = "step"
      => /\ (last.result = "OutOfBoundStep")
              = \/ last.dir \in {"North", "NE", "NW"} /\ last.coord[1] = 0
                \/ last.dir \in {"West", "SW", "NW"} /\ last.coord[2] = 0
         /\ last.result \in {"Ok", "OutOfBoundStep"}
         /\ last.result = "OutOfBoundStep" => last.after = last.coord
         /\ last.result = "Ok"
              => last.after = <<last.coord[1] + vector(last.dir)[1],
                                last.coord[2] + vector(last.dir)[2]>>
         /\ (last.coord = <<4, 5>> /\ last.dir = "NE") => last.after = <<3, 6>>
         /\ (last.coord[2] = 7 /\ last.dir = "East")
              => last.result = "Ok" /\ last.after[2] = 8

C38_Witness ==
    /\ last.op = "step"
    /\ last.dir = "SW"
    /\ last.coord = <<BOARD_SIZE, 0>>
    /\ last.result = "OutOfBoundStep"
    /\ last.after = last.coord

\* ---------------------------------------------------- claims: Turn, part two

\* C31: the assertions inside the rule engine do not fail for any reachable
\* Turn and any coordinate: in make_move every flip_disk on a cell of a
\* checked run finds a disk and place_disk at the target finds an empty
\* cell, and every get_cell of can_move is on the board.
C31_NoPanic ==
    /\ last.result # "Panic"
    /\ \A coord \in Coords :
         (current_turn.state # "None" /\ current_turn.board[coord] = "None")
           => \E acc \in {eat_directions(
                              [board |-> current_turn.board, eating |-> 0,
                               legal |-> FALSE, panic |-> FALSE],
                              coord, current_turn.state, 1)} :
                /\ ~acc.panic
                /\ acc.legal
                     => place_disk(acc.board, current_turn.state,
                                   coord).result = "Ok"
    /\ \A row \in ((BOARD_SIZE - 2)..(BOARD_SIZE - 1))
                     \cup (2..(BOARD_SIZE - 3)) \cup (0..1) :
         \A col \in ((BOARD_SIZE - 2)..(BOARD_SIZE - 1))
                       \cup (2..(BOARD_SIZE - 3)) \cup (0..1) :
           get_cell(current_turn.board, <<row, col>>) # "OutOfBoundCoord"

C31_Witness ==
    /\ Moved
    /\ last.eating >= 4
    /\ current_turn.board[last.coord] = last_turn.state
    /\ last_turn.board[last.coord] = "None"

\* C32: in every Turn reachable from first_turn, score_dark is the number of
\* dark disks on the board and score_light the number of light disks, each
\* score for itself.
C32_ScoreEach ==
    /\ current_turn.score_dark
         = Cardinality({c \in Coords : current_turn.board[c] = "Dark"})
    /\ current_turn.score_light
         = Cardinality({c \in Coords : current_turn.board[c] = "Light"})

C32_Witness ==
    /\ Moved
    /\ current_turn.score_dark > current_turn.score_light + 2
    /\ current_turn.score_light >= 1

\* C33: in every reachable Turn both scores are in 0..64 and their sum, the
\* tempo, is in 4..64; the updates of the unsigned 8-bit scores in make_move
\* (the opponent's minus eaten, the mover's plus eaten + 1) neither
\* underflow nor overflow.
C33_ScoreRange ==
    /\ current_turn.score_dark \in 0..64
    /\ current_turn.score_light \in 0..64
    /\ get_tempo(current_turn) \in 4..64
    /\ current_turn.score_dark + current_turn.score_light \in 4..64
    /\ Moved
         => /\ score(last_turn, opposite(last_turn.state)) - last.eating >= 0
            /\ score(last_turn, last_turn.state) + last.eating + 1 < 256
            /\ score(current_turn, opposite(last_turn.state))
                 = score(last_turn, opposite(last_turn.state)) - last.eating
            /\ score(current_turn, last_turn.state)
                 = score(last_turn, last_turn.state) + last.eating + 1

C33_Witness ==
    /\ Moved
    /\ get_tempo(current_turn) = 64
    /\ \E side \in Side : score(current_turn, side) > 32

\* C35: when a successful move fills the board (tempo 64), neither side has
\* a legal move on the board it leaves, so that the state Ended that the
\* shortcut of the full board sets is the state that the can_move checks,
\* of the opponent and then of the mover, would set.
C35_FullBoard ==
    (Moved /\ get_tempo(current_turn) = NUM_CELLS)
      => /\ current_turn.state = "None"
         /\ \A side \in Side :
              /\ ~can_move([current_turn EXCEPT !.state = side])
              /\ ~has_move(current_turn, side)

C35_Witness ==
    /\ Moved
    /\ get_tempo(current_turn) = NUM_CELLS
    /\ disks(current_turn.board) = NUM_CELLS
    /\ ~can_move([current_turn EXCEPT !.state = opposite(last_turn.state)])

\* The scan orders compared with DIRECTIONS: backwards, starting from South,
\* and the diagonals before the straight directions.
Orders ==
    {<<"NW", "West", "SW", "South", "SE", "East", "NE", "North">>,
     <<"South", "SW", "West", "NW", "North", "NE", "East", "SE">>,
     <<"NE", "SE", "SW", "NW", "North", "East", "South", "West">>}

\* The for loop of make_move scanning the directions in the given order.
RECURSIVE eat_directions_in(_, _, _, _, _)
eat_directions_in(order, acc, coord, turn_side, i) ==
    IF i > Len(order) \/ acc.panic
    THEN acc
    ELSE eat_directions_in(order,
             IF dir_scanned(coord, order[i])
             THEN eat_direction(acc, coord, order[i], turn_side)
             ELSE acc,
             coord, turn_side, i + 1)

\* The directions of a move whose run is eaten.
eaten_dirs(turn, coord) ==
    {dir \in Direction :
        /\ dir_scanned(coord, dir)
        /\ check_move_along_direction(turn.board, coord, dir, turn.state)}

\* The cells that differ between two boards.
changed(before, after) == {c \in Coords : after[c] # before[c]}

\* The cells one direction turns on board.
turned(board, coord, dir, turn_side) ==
    changed(board,
            eat_direction([board |-> board, eating |-> 0, legal |-> FALSE,
                           panic |-> FALSE], coord, dir, turn_side).board)

\* C34: the board, the state and the scores make_move leaves do not depend
\* on the order in which the eight directions are scanned: every order
\* leaves the for loop with the board, the eaten count and the legality
\* from which the move made the Turn it gave (the disk placed on that
\* board, the scores from that count), and eating the run of one direction
\* changes neither whether another direction has a run nor the disks it
\* turns.
C34_ScanOrder ==
    Moved =>
      /\ \A order \in Orders :
           \E acc \in {eat_directions_in(order,
                           [board |-> last_turn.board, eating |-> 0,
                            legal |-> FALSE, panic |-> FALSE],
                           last.coord, last_turn.state, 1)} :
             /\ acc.legal /\ ~acc.panic
             /\ acc.eating = last.eating
             /\ \E scored \in {update_scores(
                                 [last_turn EXCEPT !.board =
                                     place_disk(acc.board, last_turn.state,
                                                last.coord).board],
                                 last_turn.state, acc.eating)} :
                  /\ scored.board = current_turn.board
                  /\ scored.score_dark = current_turn.score_dark
                  /\ scored.score_light = current_turn.score_light
                  /\ order[1] = "NW"
                       => next_state(scored, last_turn.state)
                            = current_turn.state
      /\ \A d1 \in eaten_dirs(last_turn, last.coord) :
           \E after \in {eat_direction(
                            [board |-> last_turn.board, eating |-> 0,
                             legal |-> FALSE, panic |-> FALSE],
                            last.coord, d1, last_turn.state).board} :
             \A d2 \in Direction \ {d1} :
               /\ check_move_along_direction(after, last.coord, d2,
                                             last_turn.state)
                    = check_move_along_direction(last_turn.board, last.coord,
                                                 d2, last_turn.state)
               /\ dir_scanned(last.coord, d2)
                    => turned(after, last.coord, d2, last_turn.state)
                         = turned(last_turn.board, last.coord, d2,
                                  last_turn.state)

C34_Witness ==
    /\ Moved
    /\ Cardinality(eaten_dirs(last_turn, last.coord)) >= 3
    /\ last.eating >= 5

\* ---------------------------------------------------- claims: Game, part two

\* C36: when the player that is asked answers with a failure instead of an
\* action, play_turn returns that failure, and the current Turn and the
\* history of the Game are what they were before the call.
C36_PlayerFailure ==
    Played("Err")
      => /\ last.result = last.answer.error
         /\ last.result # "Ok"
         /\ current_turn = last_turn
         /\ turns_history = last_history

C36_Witness ==
    /\ Played("Err")
    /\ last.result = "IllegalMove"
    /\ last.answer = Failure("IllegalMove")
    /\ Len(turns_history) >= 2
    /\ current_turn.state # "None"

\* -------------------------------------------------- state machine: two Games

\* The player of a Game that is bound to the side to move.
on_turn_of(g) == IF g.current_turn.state = "Dark" THEN g.dark ELSE g.light

\* The move the player on turn of a Game answers with, as long as the Game
\* has fewer than MaxMoves moves.
OwnMoves(g) ==
    {Move(answer.coord) :
        answer \in {a \in {player_make_move(on_turn_of(g), g.current_turn)} :
                       /\ a.result = "Ok"
                       /\ moves(g.current_turn) < MaxMoves}}

\* The other answers of a player: a move to the corner, which the Turn
\* refuses, Undo, an Other and FoolPlayer's failure.
FreeAnswers(g) ==
    {Move(coord) :
        coord \in {c \in {<<0, 0>>} : check_move(g.current_turn, c) # "Ok"}}
      \cup {Undo, Other(1), Failure("EndedGame")}

\* Two Games from Game::new, each with its own Turn and history.
TwoInit ==
    /\ \E dark \in Players :
         \E g \in {new(dark, "LastPlayer")} :
           /\ current_turn = g.current_turn
           /\ turns_history = g.turns_history
           /\ players = [dark |-> g.dark, light |-> g.light]
           /\ other_game = new("LastPlayer", dark)
    /\ last_turn = first_turn
    /\ last_history = <<>>
    /\ last = [op |-> "new", coord |-> <<0, 0>>, result |-> "Ok", eating |-> 0,
               answer |-> Other(0), action |-> Other(0), invoked |-> "None",
               after_move |-> FALSE, on |-> "first"]
    /\ player = "None"
    /\ free_calls = 0
    /\ cells = empty_board
    /\ last_cells = empty_board

\* One call of play_turn on the first Game.
FirstPlays ==
    /\ current_turn.state # "None"
    /\ \/ /\ \E answer \in OwnMoves(game) : PlayTurn(answer)
          /\ UNCHANGED free_calls
       \/ /\ free_calls < MaxFreeCalls
          /\ \E answer \in FreeAnswers(game) : PlayTurn(answer)
          /\ free_calls' = free_calls + 1

\* One call of play_turn on the second Game in which its player answers
\* answer.
OtherPlayTurn(answer) ==
    /\ \E done \in {play_turn(other_game, answer)} :
         /\ other_game' = done.game
         /\ last' = [op |-> "play_turn", coord |-> answer.coord,
                     result |-> done.result, eating |-> 0,
                     answer |-> answer, action |-> done.action,
                     invoked |-> done.invoked, after_move |-> FALSE,
                     on |-> "second"]
    /\ UNCHANGED <<current_turn, turns_history, players, last_turn,
                   last_history, player, board_vars>>

\* One call of play_turn on the second Game.
OtherPlays ==
    /\ other_game.current_turn.state # "None"
    /\ \/ /\ \E answer \in OwnMoves(other_game) : OtherPlayTurn(answer)
          /\ UNCHANGED free_calls
       \/ /\ free_calls < MaxFreeCalls
          /\ \E answer \in FreeAnswers(other_game) : OtherPlayTurn(answer)
          /\ free_calls' = free_calls + 1

TwoNext ==
    \/ FirstPlays
    \/ OtherPlays

TwoGamesSpec == TwoInit /\ [][TwoNext]_vars

\* --------------------------------------------------------- claims: two Games

\* The entries of a history before a call are the same after it, and an entry
\* that the call pushed holds the Turn before the call.
Kept(history, turn, after) ==
    /\ \A i \in 1..Len(history) : i <= Len(after) => after[i] = history[i]
    /\ Len(after) <= Len(history) + 1
    /\ Len(after) = Len(history) + 1 => after[Len(after)].turn = turn

\* C37: two Games stepped in any interleaving are independent: a play_turn
\* on one Game (with a Move, an Undo, an Other or a failure as the answer)
\* leaves the current Turn and the history of the other Game unchanged, and
\* a Turn that is stored in an entry of a history is not changed by the
\* moves that are applied to the current Turn afterwards.
C37_TwoGames ==
    [][/\ last'.on = "first" => other_game' = other_game
       /\ last'.on = "second"
            => /\ current_turn' = current_turn
               /\ turns_history' = turns_history
               /\ players' = players
       /\ Kept(turns_history, current_turn, turns_history')
       /\ Kept(other_game.turns_history, other_game.current_turn,
               other_game'.turns_history)]_vars

C37_Witness ==
    /\ last.on = "second"
    /\ last.answer.kind = "Move"
    /\ last.result = "Ok"
    /\ Len(other_game.turns_history) = MaxMoves
    /\ Len(turns_history) = 2
    /\ turns_history[1].turn = first_turn
    /\ other_game.turns_history[1].turn = first_turn
    /\ other_game.current_turn # current_turn
    /\ free_calls = MaxFreeCalls

=============================================================================
